---- MODULE Spec2Model ----
(***************************************************************************)
(* BEARDOWN-TP: stop-and-wait reliable transfer over an unreliable channel.*)
(*                                                                         *)
(* The model follows protocol.py (packet codec, Internet checksum, timeout *)
(* manager, sequence number manager, statistics), the sender and receiver  *)
(* engines as given step by step in beardown_sender_student.py and         *)
(* beardown_receiver_student.py, and the driver loops and the network      *)
(* simulator of TestHarness.py.                                            *)
(*                                                                         *)
(* Bytes are integers 0..255 and byte strings are sequences of them.       *)
(* Time is counted in milliseconds (time.time() is in seconds): 0.1 s is   *)
(* 100, 0.5 s is 500, 30 s is 30000.  The float arithmetic of the timeout  *)
(* manager is done on integers, rounding down.                             *)
(***************************************************************************)
EXTENDS Bags, Integers, Sequences, FiniteSets, TLC

(***************************************************************************)
(* protocol.py: constants and flags                                        *)
(***************************************************************************)
PACKET_HEADER_SIZE == 7
MAX_PAYLOAD_SIZE == 1000
CHECKSUM_SIZE == 2

FLAG_SYN == 1
FLAG_ACK == 2
FLAG_FIN == 4
FLAG_DATA == 8

\* Optional[bytes] / Optional[float]: the value None
None == <<-1>>
NoTime == -1
\* the result of create_packet when it raises ValueError
ValueError == <<-2>>

\* flags & flag, for a single-bit flag
HasFlag(flags, flag) == (flags \div flag) % 2 = 1

(***************************************************************************)
(* protocol.py: InternetChecksum                                           *)
(***************************************************************************)
\* Word that leaves out the last byte of data of odd length
WordDroppingOddByte(data, k) ==
    IF 2 * k <= Len(data) THEN data[2 * k - 1] * 256 + data[2 * k] ELSE 0

\* word = (data[i] << 8) | data[i + 1], for the k-th 16-bit word of data
\* padded with one zero byte when its length is odd
Word(data, k) ==
    data[2 * k - 1] * 256 + (IF 2 * k <= Len(data) THEN data[2 * k] ELSE 0)

\* sum_val after the loop: the sum of the words of data.  BagCardinality adds
\* up the values of a function; a bag holds positive counts only, so every
\* word is raised by one and the n ones are taken off again.
SumWords(data) ==
    LET n == (Len(data) + 1) \div 2
    IN  BagCardinality([k \in 1..n |-> Word(data, k) + 1]) - n

\* AddCarries that drops the carries instead of adding them back
AddCarriesDropped(sum_val) == sum_val % 65536

\* while (sum_val >> 16) > 0: sum_val = (sum_val & 0xFFFF) + (sum_val >> 16)
RECURSIVE AddCarries(_)
AddCarries(sum_val) ==
    IF sum_val \div 65536 > 0
    THEN AddCarries((sum_val % 65536) + (sum_val \div 65536))
    ELSE sum_val

\* return (~sum_val) & 0xFFFF
calculate(data) ==
    65535 - AddCarries(SumWords(data))

verify(packet_with_checksum, stored_checksum) ==
    calculate(packet_with_checksum) = stored_checksum

(***************************************************************************)
(* protocol.py: PacketStructure                                            *)
(***************************************************************************)
\* PackHeader with the two bytes of the length in the other order
PackHeaderLittleEndian(seq_num, ack_num, flags, length, checksum) ==
    << seq_num % 256, ack_num % 256, flags % 256,
       length % 256, length \div 256,
       checksum \div 256, checksum % 256 >>

\* struct.pack('!BBBHH', seq_num & 0xFF, ack_num & 0xFF, flags & 0xFF,
\*             length, checksum)
PackHeader(seq_num, ack_num, flags, length, checksum) ==
    << seq_num % 256, ack_num % 256, flags % 256,
       length \div 256, length % 256,
       checksum \div 256, checksum % 256 >>

\* struct.unpack('!BBBHH', packet[:PACKET_HEADER_SIZE])
UnpackHeader(packet) ==
    [ seq_num  |-> packet[1],
      ack_num  |-> packet[2],
      flags    |-> packet[3],
      length   |-> packet[4] * 256 + packet[5],
      checksum |-> packet[6] * 256 + packet[7] ]

\* create_packet that refuses a payload of MAX_PAYLOAD_SIZE bytes as well
CreatePacketRejectsFull(seq_num, ack_num, flags, data) ==
    IF Len(data) >= MAX_PAYLOAD_SIZE THEN ValueError
    ELSE LET length   == Len(data)
             header0  == PackHeader(seq_num, ack_num, flags, length, 0)
             checksum == calculate(header0 \o data)
         IN  PackHeader(seq_num, ack_num, flags, length, checksum) \o data

create_packet(seq_num, ack_num, flags, data) ==
    IF Len(data) > MAX_PAYLOAD_SIZE THEN ValueError
    ELSE LET length   == Len(data)
             header0  == PackHeader(seq_num, ack_num, flags, length, 0)
             checksum == calculate(header0 \o data)
         IN  PackHeader(seq_num, ack_num, flags, length, checksum) \o data

\* the result of parse_packet when it raises ValueError; msg is the kind of
\* the message
ParseError(msg) ==
    [ raised |-> TRUE, msg |-> msg, seq_num |-> 0, ack_num |-> 0, flags |-> 0,
      length |-> 0, data |-> << >>, checksum |-> 0 ]

\* parse_packet that also refuses a packet whose checksum is wrong
ParsePacketWithChecksum(packet) ==
    IF Len(packet) < PACKET_HEADER_SIZE THEN ParseError("Packet too short")
    ELSE LET h    == UnpackHeader(packet)
             data == SubSeq(packet, PACKET_HEADER_SIZE + 1, Len(packet))
         IN  IF Len(data) # h.length THEN ParseError("Data length mismatch")
             ELSE IF calculate(SubSeq(packet, 1, PACKET_HEADER_SIZE - CHECKSUM_SIZE)
                               \o <<0, 0>> \o data) # h.checksum
             THEN ParseError("Checksum mismatch")
             ELSE [ raised |-> FALSE, msg |-> "",
                    seq_num |-> h.seq_num, ack_num |-> h.ack_num,
                    flags |-> h.flags, length |-> h.length,
                    data |-> data, checksum |-> h.checksum ]

\* the fields of a packet; raised is true when the call raises ValueError
parse_packet(packet) ==
    IF Len(packet) < PACKET_HEADER_SIZE THEN ParseError("Packet too short")
    ELSE LET h    == UnpackHeader(packet)
             data == SubSeq(packet, PACKET_HEADER_SIZE + 1, Len(packet))
         IN  IF Len(data) # h.length THEN ParseError("Data length mismatch")
             ELSE [ raised |-> FALSE, msg |-> "",
                    seq_num |-> h.seq_num, ack_num |-> h.ack_num,
                    flags |-> h.flags, length |-> h.length,
                    data |-> data, checksum |-> h.checksum ]

\* validate_packet without the comparison of the size with the length field
ValidatePacketAnyLength(packet) ==
    IF Len(packet) < PACKET_HEADER_SIZE
    THEN [is_valid |-> FALSE, msg |-> "Packet too short"]
    ELSE LET h == UnpackHeader(packet)
             packet_for_checksum ==
                 SubSeq(packet, 1, PACKET_HEADER_SIZE - CHECKSUM_SIZE)
                 \o <<0, 0>>
                 \o SubSeq(packet, PACKET_HEADER_SIZE + 1, Len(packet))
         IN  IF calculate(packet_for_checksum) # h.checksum
             THEN [is_valid |-> FALSE, msg |-> "Checksum mismatch"]
             ELSE [is_valid |-> TRUE, msg |-> ""]

\* the reason string of validate_packet is reduced to its kind; "" is success
validate_packet(packet) ==
    IF Len(packet) < PACKET_HEADER_SIZE
    THEN [is_valid |-> FALSE, msg |-> "Packet too short"]
    ELSE LET h == UnpackHeader(packet)
         IN  IF Len(packet) # PACKET_HEADER_SIZE + h.length
             THEN [is_valid |-> FALSE, msg |-> "Length mismatch"]
             ELSE LET packet_for_checksum ==
                          SubSeq(packet, 1, PACKET_HEADER_SIZE - CHECKSUM_SIZE)
                          \o <<0, 0>>
                          \o SubSeq(packet, PACKET_HEADER_SIZE + 1, Len(packet))
                  IN  IF calculate(packet_for_checksum) # h.checksum
                      THEN [is_valid |-> FALSE, msg |-> "Checksum mismatch"]
                      ELSE [is_valid |-> TRUE, msg |-> ""]

(***************************************************************************)
(* protocol.py: TimeoutManager (milliseconds, integer arithmetic)          *)
(***************************************************************************)
MIN_TIMEOUT == 100
MAX_TIMEOUT == 30000
MAX_SAMPLES == 50
DEFAULT_TIMEOUT == 500

TimeoutManagerInit(initial_timeout) ==
    [ initial_timeout |-> initial_timeout,
      current_timeout |-> initial_timeout,
      min_timeout     |-> MIN_TIMEOUT,
      max_timeout     |-> MAX_TIMEOUT,
      rtt_samples     |-> << >>,
      max_samples     |-> MAX_SAMPLES ]

Min(a, b) == IF a < b THEN a ELSE b
Max(a, b) == IF a > b THEN a ELSE b

RECURSIVE SumSeq(_)
SumSeq(s) == IF s = << >> THEN 0 ELSE Head(s) + SumSeq(Tail(s))

\* the largest r in lo..hi with r * r <= n
RECURSIVE SqrtBetween(_, _, _)
SqrtBetween(n, lo, hi) ==
    IF lo >= hi THEN lo
    ELSE LET mid == (lo + hi + 1) \div 2
         IN  IF mid * mid <= n THEN SqrtBetween(n, mid, hi)
             ELSE SqrtBetween(n, lo, mid - 1)

\* x ** 0.5, rounded down
Sqrt(n) == SqrtBetween(n, 0, Min(n, 46340))

_update_timeout(tm) ==
    IF tm.rtt_samples = << >> THEN tm
    ELSE LET n       == Len(tm.rtt_samples)
             avg_rtt == SumSeq(tm.rtt_samples) \div n
             sq      == [i \in 1..n |-> (tm.rtt_samples[i] - avg_rtt)
                                        * (tm.rtt_samples[i] - avg_rtt)]
             std_dev == Sqrt(SumSeq(sq) \div n)
             new_timeout == avg_rtt + 4 * std_dev
         IN  [tm EXCEPT !.current_timeout =
                 Max(tm.min_timeout, Min(tm.max_timeout, new_timeout))]

\* record_rtt that drops the newest sample when the window is full
RecordRttKeepsOldest(tm, rtt) ==
    LET appended == Append(tm.rtt_samples, rtt)
        samples  == IF Len(appended) > tm.max_samples
                    THEN SubSeq(appended, 1, tm.max_samples) ELSE appended
    IN  _update_timeout([tm EXCEPT !.rtt_samples = samples])

record_rtt(tm, rtt) ==
    LET appended == Append(tm.rtt_samples, rtt)
        samples  == IF Len(appended) > tm.max_samples
                    THEN Tail(appended) ELSE appended
    IN  _update_timeout([tm EXCEPT !.rtt_samples = samples])

get_timeout(tm) == tm.current_timeout

\* on_retransmission that doubles without the upper limit
OnRetransmissionUncapped(tm) ==
    [tm EXCEPT !.current_timeout = tm.current_timeout * 2]

on_retransmission(tm) ==
    [tm EXCEPT !.current_timeout = Min(tm.current_timeout * 2, tm.max_timeout)]

(***************************************************************************)
(* protocol.py: SequenceNumberManager (the state is seq_num; modulo is 2   *)
(* in both engines)                                                        *)
(***************************************************************************)
MODULO == 2

get_current(seq_num) == seq_num
\* increment without the wraparound
IncrementWithoutWrap(seq_num) == seq_num + 1

increment(seq_num) == (seq_num + 1) % MODULO
reset(seq_num) == 0
\* is_expected that reduces the received number modulo 2 first
IsExpectedModulo(seq_num, received_seq) == received_seq % MODULO = seq_num

is_expected(seq_num, received_seq) == received_seq = seq_num
is_duplicate(seq_num, received_seq) == received_seq = (seq_num - 1) % MODULO

(***************************************************************************)
(* protocol.py: Statistics                                                 *)
(***************************************************************************)
StatisticsInit ==
    [ segments_sent |-> 0, segments_received |-> 0,
      segments_retransmitted |-> 0, packets_lost |-> 0,
      packets_corrupted |-> 0, acks_received |-> 0, timeouts |-> 0,
      total_bytes_sent |-> 0, total_bytes_received |-> 0 ]

record_send(stats, size) ==
    [stats EXCEPT !.segments_sent = @ + 1, !.total_bytes_sent = @ + size]
record_receive(stats, size) ==
    [stats EXCEPT !.segments_received = @ + 1, !.total_bytes_received = @ + size]
record_ack(stats) == [stats EXCEPT !.acks_received = @ + 1]
record_timeout(stats) == [stats EXCEPT !.timeouts = @ + 1]
\* record_retransmission counting the resend as a segment sent as well
RecordRetransmissionAsSend(stats) ==
    [stats EXCEPT !.segments_retransmitted = @ + 1,
                  !.segments_sent = @ + 1]

record_retransmission(stats) == [stats EXCEPT !.segments_retransmitted = @ + 1]

(***************************************************************************)
(* beardown_sender_student.py: BeardownSender.  An engine is a record of   *)
(* its fields; seq_num is the state of its seq_manager.  Each method takes *)
(* the engine (and the reading t of time.time()) and yields the engine     *)
(* after the call and the returned value.                                  *)
(***************************************************************************)
BeardownSenderInit(timeout) ==
    [ data_buffer      |-> << >>,
      current_offset   |-> 0,
      total_size       |-> 0,
      seq_num          |-> 0,
      timeout_manager  |-> TimeoutManagerInit(timeout),
      current_packet   |-> None,
      packet_sent_time |-> NoTime,
      pending_ack      |-> FALSE,
      current_data     |-> << >>,
      stats            |-> StatisticsInit ]

load_data(s, data) ==
    [s EXCEPT !.data_buffer = data,
              !.total_size = Len(data),
              !.current_offset = 0,
              !.seq_num = reset(s.seq_num),
              !.pending_ack = FALSE]

_should_retransmit(s, t) ==
    IF ~s.pending_ack THEN FALSE
    ELSE IF s.packet_sent_time = NoTime THEN FALSE
    ELSE LET elapsed == t - s.packet_sent_time
             timeout == get_timeout(s.timeout_manager)
         IN  elapsed > timeout

\* handle_timeout without "self.packet_sent_time = time.time()"
HandleTimeoutKeepClock(s, t) ==
    [s EXCEPT !.timeout_manager = on_retransmission(s.timeout_manager),
              !.stats = record_retransmission(record_timeout(s.stats))]

\* handle_timeout that takes the time waited for an RTT sample
HandleTimeoutSamplesRtt(s, t) ==
    [s EXCEPT !.timeout_manager =
                  on_retransmission(
                      record_rtt(s.timeout_manager, t - s.packet_sent_time)),
              !.packet_sent_time = t,
              !.stats = record_retransmission(record_timeout(s.stats))]

\* handle_timeout that also goes back to the start of the data
HandleTimeoutRewind(s, t) ==
    [s EXCEPT !.timeout_manager = on_retransmission(s.timeout_manager),
              !.packet_sent_time = t,
              !.current_offset = 0,
              !.stats = record_retransmission(record_timeout(s.stats))]

handle_timeout(s, t) ==
    [s EXCEPT !.timeout_manager = on_retransmission(s.timeout_manager),
              !.packet_sent_time = t,
              !.stats = record_retransmission(record_timeout(s.stats))]

is_complete(s) == s.current_offset >= s.total_size /\ ~s.pending_ack

\* _extract_data_segment with the chunk one byte short of MAX_PAYLOAD_SIZE
ExtractShortSegment(s) ==
    LET remaining  == s.total_size - s.current_offset
        chunk_size == Min(remaining, MAX_PAYLOAD_SIZE - 1)
    IN  SubSeq(s.data_buffer, s.current_offset + 1, s.current_offset + chunk_size)

_extract_data_segment(s) ==
    LET remaining  == s.total_size - s.current_offset
        chunk_size == Min(remaining, MAX_PAYLOAD_SIZE)
    IN  SubSeq(s.data_buffer, s.current_offset + 1, s.current_offset + chunk_size)

\* _create_data_packet numbering every segment 0
CreateDataPacketNumberZero(s, data_chunk) ==
    create_packet(0, 0, FLAG_DATA, data_chunk)

_create_data_packet(s, data_chunk) ==
    create_packet(get_current(s.seq_num), 0, FLAG_DATA, data_chunk)

\* get_next_packet without "if self.pending_ack: return None"
GetNextPacketNoWait(s, t) ==
    IF _should_retransmit(s, t)
    THEN [sender |-> handle_timeout(s, t), ret |-> s.current_packet]
    ELSE IF s.current_offset >= s.total_size THEN [sender |-> s, ret |-> None]
    ELSE LET data_segment == _extract_data_segment(s)
             packet       == _create_data_packet(s, data_segment)
         IN  [ sender |-> [s EXCEPT !.current_packet = packet,
                                    !.current_data = data_segment,
                                    !.packet_sent_time = t,
                                    !.pending_ack = TRUE,
                                    !.stats = record_send(s.stats, Len(packet))],
               ret |-> packet ]

\* get_next_packet with "==" for ">=" in the test for the end of the data
GetNextPacketExactEnd(s, t) ==
    IF _should_retransmit(s, t)
    THEN [sender |-> handle_timeout(s, t), ret |-> s.current_packet]
    ELSE IF s.pending_ack THEN [sender |-> s, ret |-> None]
    ELSE IF s.current_offset = s.total_size THEN [sender |-> s, ret |-> None]
    ELSE LET data_segment == _extract_data_segment(s)
             packet       == _create_data_packet(s, data_segment)
         IN  [ sender |-> [s EXCEPT !.current_packet = packet,
                                    !.current_data = data_segment,
                                    !.packet_sent_time = t,
                                    !.pending_ack = TRUE,
                                    !.stats = record_send(s.stats, Len(packet))],
               ret |-> packet ]

get_next_packet(s, t) ==
    IF _should_retransmit(s, t)
    THEN [sender |-> handle_timeout(s, t), ret |-> s.current_packet]
    ELSE IF s.pending_ack THEN [sender |-> s, ret |-> None]
    ELSE IF s.current_offset >= s.total_size THEN [sender |-> s, ret |-> None]
    ELSE LET data_segment == _extract_data_segment(s)
             packet       == _create_data_packet(s, data_segment)
         IN  [ sender |-> [s EXCEPT !.current_packet = packet,
                                    !.current_data = data_segment,
                                    !.packet_sent_time = t,
                                    !.pending_ack = TRUE,
                                    !.stats = record_send(s.stats, Len(packet))],
               ret |-> packet ]

\* AcceptAck advancing the offset by a full segment, whatever was sent
AcceptAckFullSegment(s, t) ==
    [s EXCEPT !.timeout_manager =
                  IF s.packet_sent_time # NoTime
                  THEN record_rtt(s.timeout_manager, t - s.packet_sent_time)
                  ELSE s.timeout_manager,
              !.seq_num = increment(s.seq_num),
              !.current_offset = s.current_offset + MAX_PAYLOAD_SIZE,
              !.pending_ack = FALSE,
              !.stats = record_ack(s.stats)]

\* the sender after an ack with the expected number
AcceptAck(s, t) ==
    [s EXCEPT !.timeout_manager =
                  IF s.packet_sent_time # NoTime
                  THEN record_rtt(s.timeout_manager, t - s.packet_sent_time)
                  ELSE s.timeout_manager,
              !.seq_num = increment(s.seq_num),
              !.current_offset = s.current_offset + Len(s.current_data),
              !.pending_ack = FALSE,
              !.stats = record_ack(s.stats)]

\* process_ack without the comparison of ack_num with expected_ack
ProcessAckAnyNumber(s, ack_packet, t) ==
    IF ~validate_packet(ack_packet).is_valid
    THEN [sender |-> s, ret |-> FALSE]
    ELSE LET f == parse_packet(ack_packet)
         IN  IF f.raised THEN [sender |-> s, ret |-> FALSE]
             ELSE IF ~HasFlag(f.flags, FLAG_ACK) THEN [sender |-> s, ret |-> FALSE]
             ELSE [sender |-> AcceptAck(s, t), ret |-> TRUE]

process_ack(s, ack_packet, t) ==
    IF ~validate_packet(ack_packet).is_valid
    THEN [sender |-> s, ret |-> FALSE]
    ELSE LET f == parse_packet(ack_packet)
         IN  IF f.raised THEN [sender |-> s, ret |-> FALSE]
             ELSE IF ~HasFlag(f.flags, FLAG_ACK) THEN [sender |-> s, ret |-> FALSE]
             ELSE LET expected_ack == (get_current(s.seq_num) + 1) % 2
                  IN  IF f.ack_num = expected_ack
                      THEN [sender |-> AcceptAck(s, t), ret |-> TRUE]
                      ELSE [sender |-> s, ret |-> FALSE]

(***************************************************************************)
(* beardown_receiver_student.py: BeardownReceiver                          *)
(***************************************************************************)
BeardownReceiverInit ==
    [ received_data |-> << >>,
      seq_num       |-> 0,
      stats         |-> StatisticsInit ]

\* _validate_packet that checks the sizes and not the checksum
ValidatePacketSizesOnly(r, packet) ==
    IF Len(packet) < PACKET_HEADER_SIZE
    THEN [is_valid |-> FALSE, msg |-> "Packet too short"]
    ELSE IF Len(packet) # PACKET_HEADER_SIZE + UnpackHeader(packet).length
    THEN [is_valid |-> FALSE, msg |-> "Length mismatch"]
    ELSE [is_valid |-> TRUE, msg |-> ""]

_validate_packet(r, packet) == validate_packet(packet)

_parse_packet(r, packet) ==
    LET f == parse_packet(packet)
    IN  [seq_num |-> f.seq_num, flags |-> f.flags,
         length |-> f.length, data |-> f.data]

\* _is_duplicate with previous = expected - 1, not reduced modulo 2
IsDuplicateWithoutModulo(r, seq_num) ==
    LET expected == get_current(r.seq_num)
        previous == expected - 1
    IN  seq_num = previous

_is_duplicate(r, seq_num) ==
    LET expected == get_current(r.seq_num)
        previous == (expected - 1) % 2
    IN  seq_num = previous

\* the receiver after the call (record_ack) and the ack packet
_create_ack_packet(r, ack_seq) ==
    [ receiver |-> [r EXCEPT !.stats = record_ack(r.stats)],
      ret      |-> create_packet(0, ack_seq, FLAG_ACK, << >>) ]

\* _buffer_data putting the new bytes in front
BufferDataInFront(r, data) ==
    [r EXCEPT !.received_data = data \o r.received_data]

_buffer_data(r, data) == [r EXCEPT !.received_data = r.received_data \o data]

get_received_data(r) == r.received_data

\* process_packet answering a duplicate with the sequence number received
\* instead of the one expected
ProcessPacketAckReceived(r, packet) ==
    IF ~_validate_packet(r, packet).is_valid
    THEN [receiver |-> r, ret |-> None]
    ELSE LET f == _parse_packet(r, packet)
         IN  IF _is_duplicate(r, f.seq_num)
             THEN _create_ack_packet(r, f.seq_num)
             ELSE IF is_expected(r.seq_num, f.seq_num)
             THEN LET buffered == _buffer_data(r, f.data)
                      advanced == [buffered EXCEPT
                                      !.seq_num = increment(buffered.seq_num),
                                      !.stats = record_receive(buffered.stats, f.length)]
                  IN  _create_ack_packet(advanced, get_current(advanced.seq_num))
             ELSE [receiver |-> r, ret |-> None]

\* process_packet without the duplicate test: every valid packet is buffered
ProcessPacketEveryNumber(r, packet) ==
    IF ~_validate_packet(r, packet).is_valid
    THEN [receiver |-> r, ret |-> None]
    ELSE LET f == _parse_packet(r, packet)
             buffered == _buffer_data(r, f.data)
             advanced == [buffered EXCEPT
                             !.seq_num = increment(buffered.seq_num),
                             !.stats = record_receive(buffered.stats, f.length)]
         IN  _create_ack_packet(advanced, get_current(advanced.seq_num))

process_packet(r, packet) ==
    IF ~_validate_packet(r, packet).is_valid
    THEN [receiver |-> r, ret |-> None]
    ELSE LET f == _parse_packet(r, packet)
         IN  IF _is_duplicate(r, f.seq_num)
             THEN _create_ack_packet(r, get_current(r.seq_num))
             ELSE IF is_expected(r.seq_num, f.seq_num)
             THEN LET buffered == _buffer_data(r, f.data)
                      advanced == [buffered EXCEPT
                                      !.seq_num = increment(buffered.seq_num),
                                      !.stats = record_receive(buffered.stats, f.length)]
                  IN  _create_ack_packet(advanced, get_current(advanced.seq_num))
             ELSE [receiver |-> r, ret |-> None]

(***************************************************************************)
(* TestHarness.py: the payloads of the six tests                           *)
(***************************************************************************)
\* phrase * n
Repeat(phrase, n) ==
    [i \in 1..(Len(phrase) * n) |-> phrase[((i - 1) % Len(phrase)) + 1]]

\* b"A" * 100
BasicData == [i \in 1..100 |-> 65]
\* bytes([i % 256 for i in range(100 * 1024)])
SpeedData == [i \in 1..(100 * 1024) |-> (i - 1) % 256]
\* b"Test data with loss: " * 100
LossData ==
    Repeat(<<84, 101, 115, 116, 32, 100, 97, 116, 97, 32, 119, 105, 116, 104,
             32, 108, 111, 115, 115, 58, 32>>, 100)
\* b"Testing corruption detection mechanism: " * 50
CorruptionData ==
    Repeat(<<84, 101, 115, 116, 105, 110, 103, 32, 99, 111, 114, 114, 117,
             112, 116, 105, 111, 110, 32, 100, 101, 116, 101, 99, 116, 105,
             111, 110, 32, 109, 101, 99, 104, 97, 110, 105, 115, 109, 58,
             32>>, 50)
\* b"Deduplication test payload data: " * 40
DuplicationData ==
    Repeat(<<68, 101, 100, 117, 112, 108, 105, 99, 97, 116, 105, 111, 110,
             32, 116, 101, 115, 116, 32, 112, 97, 121, 108, 111, 97, 100, 32,
             100, 97, 116, 97, 58, 32>>, 40)
\* b"Delay test with up to 500ms latency: " * 30
DelayData ==
    Repeat(<<68, 101, 108, 97, 121, 32, 116, 101, 115, 116, 32, 119, 105,
             116, 104, 32, 117, 112, 32, 116, 111, 32, 53, 48, 48, 109, 115,
             32, 108, 97, 116, 101, 110, 99, 121, 58, 32>>, 30)

(***************************************************************************)
(* TestHarness.py: NetworkSimulator._corrupt_packet.  corrupt_pos is the   *)
(* 0-based position drawn in 7..len-1 and corrupt_bit the bit drawn in     *)
(* 0..7; a packet of 7 bytes or fewer is returned unchanged.               *)
(***************************************************************************)
Pow2(b) == 2 ^ b

\* x ^ (1 << b) on a byte
FlipBit(x, b) == IF (x \div Pow2(b)) % 2 = 1 THEN x - Pow2(b) ELSE x + Pow2(b)

_corrupt_packet(packet, corrupt_pos, corrupt_bit) ==
    IF Len(packet) > 7
    THEN [packet EXCEPT ![corrupt_pos + 1] = FlipBit(@, corrupt_bit)]
    ELSE packet

(***************************************************************************)
(* State                                                                   *)
(***************************************************************************)
VARIABLES
    sender,           \* the BeardownSender
    receiver,         \* the BeardownReceiver
    now,              \* the reading of time.time(), in milliseconds
    data_channel,     \* data packets handed to the channel so far
    ack_channel,      \* acks handed to the channel so far
    delivered,        \* the packet the receiver buffered last (None: none yet)
    last,             \* the last engine call, see Call
    pc,               \* driver loop: the statement to execute next
    test,             \* driver loop: the test being run
    iterations,       \* driver loop: its counter
    packet,           \* driver loop: the value of get_next_packet()
    received_packet,  \* driver loop: the value of network.process_packet()
    ack,              \* driver loop: the value of receiver.process_packet()
    network,          \* driver loop: the NetworkSimulator's counters
    backoff,          \* estimator calls: get_timeout() before and after each
                      \* of the on_retransmission calls made in a row
    rtts,             \* estimator calls: the samples given to record_rtt so
                      \* far, in the order of the calls
    fresh,            \* sender calls: TRUE from a load_data call until the
                      \* next get_next_packet call
    fifo              \* order-preserving channel: the packets in transit in
                      \* each direction, oldest first

vars == << sender, receiver, now, data_channel, ack_channel, delivered, last,
           pc, test, iterations, packet, received_packet, ack, network,
           backoff, rtts, fresh, fifo >>

driverVars == << pc, test, iterations, packet, received_packet, ack, network >>

\* The record kept in last: the method called, its argument, the clock at
\* the call, the returned packet (or None) or the returned boolean, and the
\* engines and the last buffered packet as they were before the call.
Call(op, arg, ret_packet, ret_ok) ==
    [ op |-> op, arg |-> arg, t |-> now,
      ret_packet |-> ret_packet, ret_ok |-> ret_ok,
      sender |-> sender, receiver |-> receiver, delivered |-> delivered ]

(***************************************************************************)
(* Bounds of the model                                                     *)
(***************************************************************************)
\* the clock advances in steps of TickStep milliseconds, MaxTicks times
TickStep == 600
MaxTicks == 1
\* direct calls of handle_timeout
MaxTimeouts == 1
\* acks the sender accepts, packets the receiver answers
MaxAcks == 3
MaxAnswers == 3

\* payloads loaded in the free-running specification
DataInputs == { << >>, BasicData, LossData }

\* the draws of _corrupt_packet that are tried: the last payload byte
CorruptPositions(p) == { Len(p) - 1 }
CorruptBits == { 0 }

(***************************************************************************)
(* The engine calls, as steps on the state                                 *)
(***************************************************************************)
DoLoadData(data) ==
    /\ sender' = load_data(sender, data)
    /\ last' = Call("load_data", None, None, FALSE)
    /\ UNCHANGED << receiver, delivered >>

\* r: the result of get_next_packet(sender, now)
DoGetNextPacket(r) ==
    /\ sender' = r.sender
    /\ last' = Call("get_next_packet", None, r.ret, FALSE)
    /\ UNCHANGED << receiver, delivered >>

DoHandleTimeout ==
    /\ sender' = handle_timeout(sender, now)
    /\ last' = Call("handle_timeout", None, None, FALSE)
    /\ UNCHANGED << receiver, delivered >>

DoProcessAck(p) ==
    /\ LET r == process_ack(sender, p, now)
       IN  /\ sender' = r.sender
           /\ last' = Call("process_ack", p, None, r.ret)
    /\ UNCHANGED << receiver, delivered >>

\* r: the result of process_packet(receiver, p)
DoProcessPacket(p, r) ==
    /\ receiver' = r.receiver
    /\ delivered' = IF r.receiver.stats.segments_received
                        # receiver.stats.segments_received
                     THEN p ELSE delivered
    /\ last' = Call("process_packet", p, r.ret, FALSE)
    /\ UNCHANGED sender

(***************************************************************************)
(* Spec: the two engines called in any order, connected by a channel that  *)
(* may drop, corrupt, duplicate, delay and reorder.  A packet handed to    *)
(* the channel may be delivered any number of times, at any later moment.  *)
(***************************************************************************)
NoNetwork == [packets_sent |-> 0, packets_lost |-> 0,
              packets_corrupted |-> 0, packets_delayed |-> 0]

\* both engines as constructed, the sender with the given timeout
EnginesWith(timeout) ==
    /\ sender = BeardownSenderInit(timeout)
    /\ receiver = BeardownReceiverInit
    /\ now = 0
    /\ data_channel = {}
    /\ ack_channel = {}
    /\ delivered = None
    /\ last = [ op |-> "init", arg |-> None, t |-> 0,
                ret_packet |-> None, ret_ok |-> FALSE,
                sender |-> BeardownSenderInit(timeout),
                receiver |-> BeardownReceiverInit, delivered |-> None ]
    /\ iterations = 0
    /\ packet = None
    /\ received_packet = None
    /\ ack = None
    /\ network = NoNetwork
    /\ backoff = << >>
    /\ rtts = << >>
    /\ fresh = FALSE
    /\ fifo = [data |-> << >>, ack |-> << >>]

Engines == EnginesWith(DEFAULT_TIMEOUT)

Init ==
    /\ Engines
    /\ pc = "free"
    /\ test = "none"

LoadData(data) ==
    /\ last.op = "init"
    /\ DoLoadData(data)
    /\ UNCHANGED << now, data_channel, ack_channel, driverVars, backoff,
                    rtts, fresh, fifo >>

GetNextPacket ==
    /\ last.op # "init"
    /\ LET r == get_next_packet(sender, now)
       IN  /\ DoGetNextPacket(r)
           /\ data_channel' = IF r.ret = None THEN data_channel
                              ELSE data_channel \cup {r.ret}
    /\ UNCHANGED << now, ack_channel, driverVars, backoff, rtts, fresh, fifo >>

HandleTimeout ==
    /\ last.op # "init"
    /\ sender.stats.timeouts < MaxTimeouts
    /\ DoHandleTimeout
    /\ UNCHANGED << now, data_channel, ack_channel, driverVars, backoff,
                    rtts, fresh, fifo >>

\* what may reach the sender: an ack, an ack with its ack_num changed in
\* transit, a truncated ack, and a packet that is valid and carries the
\* awaited ack_num but not the ACK flag
AckInputs ==
    ack_channel
    \cup { [a EXCEPT ![2] = FlipBit(@, 0)] : a \in ack_channel }
    \cup { SubSeq(a, 1, 6) : a \in ack_channel }
    \cup { create_packet(0, (sender.seq_num + 1) % 2, FLAG_DATA, << >>) }

ProcessAck(p) ==
    /\ sender.stats.acks_received < MaxAcks
    /\ DoProcessAck(p)
    /\ UNCHANGED << now, data_channel, ack_channel, driverVars, backoff,
                    rtts, fresh, fifo >>

\* what may reach the receiver: a data packet, or one with a payload bit
\* flipped
PacketInputs ==
    data_channel
    \cup UNION { { _corrupt_packet(p, pos, b) :
                     pos \in CorruptPositions(p), b \in CorruptBits } :
                   p \in data_channel }

ProcessPacket(p) ==
    /\ receiver.stats.acks_received < MaxAnswers
    /\ LET r == process_packet(receiver, p)
       IN  /\ DoProcessPacket(p, r)
           /\ ack_channel' = IF r.ret = None THEN ack_channel
                             ELSE ack_channel \cup {r.ret}
    /\ UNCHANGED << now, data_channel, driverVars, backoff, rtts, fresh, fifo >>

Tick ==
    /\ now < MaxTicks * TickStep
    /\ now' = now + TickStep
    /\ UNCHANGED << sender, receiver, data_channel, ack_channel, delivered,
                    last, driverVars, backoff, rtts, fresh, fifo >>

Next ==
    \/ \E data \in DataInputs : LoadData(data)
    \/ GetNextPacket
    \/ HandleTimeout
    \/ \E p \in AckInputs : ProcessAck(p)
    \/ \E p \in PacketInputs : ProcessPacket(p)
    \/ Tick

Spec == Init /\ [][Next]_vars

(***************************************************************************)
(* TestHarness.py: the driver loop of the six tests (BasicTest.run,        *)
(* BasicSpeedTest.run, RandomDropTest.run, CorruptionTest.run,             *)
(* DuplicationTest.run, DelayTest.run) and NetworkSimulator.process_packet *)
(***************************************************************************)
Tests == { "basic", "speed", "loss", "corruption", "duplication", "delay" }

\* What differs between the tests: the payload, the NetworkSimulator's
\* arguments (whether loss_rate and corruption_rate are positive, and
\* delay_range[1] in milliseconds), max_iterations, whether a lost packet
\* ends the iteration with continue, and whether the loop hands the packet
\* to the receiver a second time on a roll.
TestConfig(t) ==
    CASE t = "basic" ->
           [ data |-> BasicData, loss |-> FALSE, corruption |-> FALSE,
             delay_max |-> 0, max_iterations |-> 100,
             continue_on_loss |-> TRUE, second_delivery |-> FALSE ]
      [] t = "speed" ->
           [ data |-> SpeedData, loss |-> FALSE, corruption |-> FALSE,
             delay_max |-> 0, max_iterations |-> 1000,
             continue_on_loss |-> TRUE, second_delivery |-> FALSE ]
      [] t = "loss" ->
           [ data |-> LossData, loss |-> TRUE, corruption |-> FALSE,
             delay_max |-> 0, max_iterations |-> 2000,
             continue_on_loss |-> FALSE, second_delivery |-> FALSE ]
      [] t = "corruption" ->
           [ data |-> CorruptionData, loss |-> FALSE, corruption |-> TRUE,
             delay_max |-> 0, max_iterations |-> 2000,
             continue_on_loss |-> FALSE, second_delivery |-> FALSE ]
      [] t = "duplication" ->
           [ data |-> DuplicationData, loss |-> FALSE, corruption |-> FALSE,
             delay_max |-> 0, max_iterations |-> 2000,
             continue_on_loss |-> FALSE, second_delivery |-> TRUE ]
      [] t = "delay" ->
           [ data |-> DelayData, loss |-> FALSE, corruption |-> FALSE,
             delay_max |-> 500, max_iterations |-> 1500,
             continue_on_loss |-> FALSE, second_delivery |-> FALSE ]

\* the draws of random.uniform(delay_range[0], delay_range[1]) that are tried
DelayChoices(cfg) == { 0, cfg.delay_max \div 2, cfg.delay_max }

\* the loop head may be reached late: the clock may jump MaxStalls times
MaxStalls == 2

DriverInit ==
    /\ Engines
    /\ pc = "load"
    /\ test \in Tests

\* sender.load_data(test_data)
DriverLoad ==
    /\ pc = "load"
    /\ DoLoadData(TestConfig(test).data)
    /\ pc' = "while"
    /\ UNCHANGED << now, data_channel, ack_channel, test, iterations, packet,
                    received_packet, ack, network, backoff, rtts, fresh,
                    fifo >>

\* while not sender.is_complete() and iterations < max_iterations
DriverWhile ==
    /\ pc = "while"
    /\ pc' = IF ~is_complete(sender)
                /\ iterations < TestConfig(test).max_iterations
             THEN "get" ELSE "done"
    /\ UNCHANGED << sender, receiver, now, data_channel, ack_channel,
                    delivered, last, test, iterations, packet,
                    received_packet, ack, network, backoff, rtts, fresh,
                    fifo >>

\* time passes before the loop head is reached again
DriverStall ==
    /\ pc = "while"
    /\ sender.pending_ack
    /\ now < MaxStalls * TickStep
    /\ now' = now + TickStep
    /\ UNCHANGED << sender, receiver, data_channel, ack_channel, delivered,
                    last, driverVars, backoff, rtts, fresh, fifo >>

\* packet = sender.get_next_packet(); if packet is None: break
DriverGetNextPacket ==
    /\ pc = "get"
    /\ LET r == get_next_packet(sender, now)
       IN  /\ DoGetNextPacket(r)
           /\ packet' = r.ret
           /\ pc' = IF r.ret = None THEN "done" ELSE "network"
    /\ UNCHANGED << now, data_channel, ack_channel, test, iterations,
                    received_packet, ack, network, backoff, rtts, fresh,
                    fifo >>

\* received_packet = network.process_packet(packet): the packet is lost
NetworkLoses ==
    /\ pc = "network"
    /\ TestConfig(test).loss
    /\ network' = [network EXCEPT !.packets_sent = @ + 1,
                                  !.packets_lost = @ + 1]
    /\ received_packet' = None
    /\ pc' = "timeout"
    /\ UNCHANGED << sender, receiver, now, data_channel, ack_channel,
                    delivered, last, test, iterations, packet, ack, backoff,
                    rtts, fresh, fifo >>

\* received_packet = network.process_packet(packet): the packet is passed
\* on, corrupted or not, after a delay or none
NetworkPasses(corrupt, corrupt_pos, corrupt_bit, delay) ==
    /\ pc = "network"
    /\ corrupt => TestConfig(test).corruption
    /\ received_packet' = IF corrupt
                          THEN _corrupt_packet(packet, corrupt_pos, corrupt_bit)
                          ELSE packet
    /\ network' = [network EXCEPT
                      !.packets_sent = @ + 1,
                      !.packets_corrupted = IF corrupt THEN @ + 1 ELSE @,
                      !.packets_delayed = IF delay > 0 THEN @ + 1 ELSE @]
    /\ now' = now + delay
    /\ pc' = "receive"
    /\ UNCHANGED << sender, receiver, data_channel, ack_channel, delivered,
                    last, test, iterations, packet, ack, backoff,
                    rtts, fresh, fifo >>

\* sender.handle_timeout(), then continue or the end of the iteration
DriverHandleTimeout ==
    /\ pc = "timeout"
    /\ DoHandleTimeout
    /\ pc' = IF TestConfig(test).continue_on_loss THEN "while" ELSE "increment"
    /\ UNCHANGED << now, data_channel, ack_channel, test, iterations, packet,
                    received_packet, ack, network, backoff, rtts, fresh,
                    fifo >>

\* ack = receiver.process_packet(received_packet)
DriverProcessPacket ==
    /\ pc = "receive"
    /\ LET r == process_packet(receiver, received_packet)
       IN  /\ DoProcessPacket(received_packet, r)
           /\ ack' = r.ret
           /\ pc' = IF r.ret # None THEN "ack"
                    ELSE IF TestConfig(test).second_delivery THEN "roll"
                    ELSE "increment"
    /\ UNCHANGED << now, data_channel, ack_channel, test, iterations, packet,
                    received_packet, network, backoff, rtts, fresh, fifo >>

\* if ack is not None: sender.process_ack(ack)
DriverProcessAck ==
    /\ pc = "ack"
    /\ DoProcessAck(ack)
    /\ pc' = IF TestConfig(test).second_delivery THEN "roll" ELSE "increment"
    /\ UNCHANGED << now, data_channel, ack_channel, test, iterations, packet,
                    received_packet, ack, network, backoff, rtts, fresh,
                    fifo >>

\* DuplicationTest: if random.random() < 0.05:
\*                      ack = receiver.process_packet(received_packet)
DriverSecondDelivery ==
    /\ pc = "roll"
    /\ LET r == process_packet(receiver, received_packet)
       IN  /\ DoProcessPacket(received_packet, r)
           /\ ack' = r.ret
    /\ pc' = "increment"
    /\ UNCHANGED << now, data_channel, ack_channel, test, iterations, packet,
                    received_packet, network, backoff, rtts, fresh, fifo >>

\* DuplicationTest: the roll fails
DriverNoSecondDelivery ==
    /\ pc = "roll"
    /\ pc' = "increment"
    /\ UNCHANGED << sender, receiver, now, data_channel, ack_channel,
                    delivered, last, test, iterations, packet,
                    received_packet, ack, network, backoff, rtts, fresh,
                    fifo >>

\* iterations += 1
DriverIncrement ==
    /\ pc = "increment"
    /\ iterations' = iterations + 1
    /\ pc' = "while"
    /\ UNCHANGED << sender, receiver, now, data_channel, ack_channel,
                    delivered, last, test, packet, received_packet, ack,
                    network, backoff, rtts, fresh, fifo >>

DriverNext ==
    \/ DriverLoad
    \/ DriverWhile
    \/ DriverStall
    \/ DriverGetNextPacket
    \/ NetworkLoses
    \/ \E delay \in DelayChoices(TestConfig(test)) :
          \/ NetworkPasses(FALSE, 0, 0, delay)
          \/ \E pos \in CorruptPositions(packet), b \in CorruptBits :
                NetworkPasses(TRUE, pos, b, delay)
    \/ DriverHandleTimeout
    \/ DriverProcessPacket
    \/ DriverProcessAck
    \/ DriverSecondDelivery
    \/ DriverNoSecondDelivery
    \/ DriverIncrement

DriverSpec == DriverInit /\ [][DriverNext]_vars

(***************************************************************************)
(* ReceiverSpec: the receiver alone, given byte sequences of every kind:   *)
(* data packets with either sequence number, each of them with one bit     *)
(* changed, cut short or made longer, and bytes that are no packet.        *)
(***************************************************************************)
ReceiverPayloads == { << >>, <<65>>, <<1, 2, 3>> }

ReceiverPackets ==
    { create_packet(seq, 0, FLAG_DATA, d) : seq \in {0, 1},
                                            d \in ReceiverPayloads }

\* well-formed DATA packets whose sequence number is neither 0 nor 1
UnexpectedNumbers == { 2, 3, 254, 255 }

UnexpectedPackets ==
    { create_packet(seq, 0, FLAG_DATA, d) : seq \in UnexpectedNumbers,
                                            d \in { << >>, <<65>> } }

\* well-formed packets without the DATA flag, such as the acks the
\* receiver itself builds
AckOnlyPackets ==
    { create_packet(seq, a, FLAG_ACK, d) : seq \in {0, 1}, a \in {0, 1},
                                           d \in { << >>, <<65>> } }

\* the bits of a byte that are changed
FlippedBits == { 0, 7 }

\* p with one bit of one byte changed
BitFlips(p) ==
    { [p EXCEPT ![i] = FlipBit(@, b)] : i \in 1..Len(p), b \in FlippedBits }

ReceiverInputs ==
    ReceiverPackets
    \cup UnexpectedPackets
    \cup AckOnlyPackets
    \cup UNION { BitFlips(p) : p \in ReceiverPackets }
    \cup { SubSeq(p, 1, PACKET_HEADER_SIZE - 1) : p \in ReceiverPackets }
    \cup { SubSeq(p, 1, Len(p) - 1) : p \in ReceiverPackets }
    \cup { p \o <<0>> : p \in ReceiverPackets }
    \cup { << >>, <<0, 0, 0, 0, 0, 0, 0>> }

ReceiverNext == \E p \in ReceiverInputs : ProcessPacket(p)

ReceiverSpec == Init /\ [][ReceiverNext]_vars

(***************************************************************************)
(* Properties of Spec                                                      *)
(***************************************************************************)
IsPrefix(a, b) == Len(a) <= Len(b) /\ a = SubSeq(b, 1, Len(a))

\* the header fields of a packet that passed validate_packet
Fields(p) == UnpackHeader(p)

IsValidAck(p) ==
    /\ p # None
    /\ validate_packet(p).is_valid
    /\ HasFlag(Fields(p).flags, FLAG_ACK)

\* C1: whatever the channel does (drop, corrupt, duplicate, delay, reorder),
\* the receiver's data is always a prefix of the loaded payload, and it is
\* the whole payload whenever the sender reports completion.
C1_ExactlyOnceInOrder ==
    /\ IsPrefix(get_received_data(receiver), sender.data_buffer)
    /\ is_complete(sender) => get_received_data(receiver) = sender.data_buffer

\* C5: when the receiver processes a copy of the packet it buffered last,
\* its data and its expected sequence number stay as they were and it
\* returns a valid ACK carrying the expected sequence number; so for every
\* further copy.
C5_DuplicateIdempotent ==
    (last.op = "process_packet" /\ last.delivered # None
                                /\ last.arg = last.delivered)
    => /\ get_received_data(receiver) = get_received_data(last.receiver)
       /\ receiver.seq_num = last.receiver.seq_num
       /\ IsValidAck(last.ret_packet)
       /\ Fields(last.ret_packet).ack_num = receiver.seq_num
       /\ Fields(last.ret_packet).ack_num = (Fields(last.arg).seq_num + 1) % 2

C5_Witness ==
    /\ last.op = "process_packet"
    /\ last.delivered # None
    /\ last.arg = last.delivered
    /\ last.receiver.stats.acks_received >= 2
    /\ last.ret_packet # None

\* the receiver has buffered the sender's outstanding segment last, after
\* the segments before it in order, and the sender has resent a segment (an
\* ack did not arrive)
AckWasLost(s, r, d) ==
    /\ s.pending_ack
    /\ s.stats.segments_retransmitted > 0
    /\ d # None
    /\ d = s.current_packet
    /\ get_received_data(r) =
           SubSeq(s.data_buffer, 1, s.current_offset + Len(s.current_data))

\* C6: when the ack of the outstanding segment was lost and the sender has
\* resent the segment, the receiver answers the resent copy with an ack
\* that process_ack accepts, without buffering the segment again; accepting
\* it moves the sender to the next segment, and the receiver holds the
\* payload up to and including the segment, once.
C6_AckLossRecovery ==
    /\ (last.op = "process_packet"
            /\ AckWasLost(sender, last.receiver, last.delivered)
            /\ last.arg = sender.current_packet)
       => /\ last.ret_packet # None
          /\ process_ack(sender, last.ret_packet, now).ret
          /\ get_received_data(receiver) = get_received_data(last.receiver)
    /\ (last.op = "process_ack"
            /\ AckWasLost(last.sender, receiver, last.delivered)
            /\ IsValidAck(last.arg)
            /\ Fields(last.arg).ack_num = receiver.seq_num)
       => /\ last.ret_ok
          /\ sender.seq_num = (last.sender.seq_num + 1) % 2
          /\ sender.current_offset =
                 last.sender.current_offset + Len(last.sender.current_data)
          /\ get_received_data(receiver) =
                 SubSeq(sender.data_buffer, 1, sender.current_offset)

C6_Witness ==
    /\ last.op = "process_ack"
    /\ AckWasLost(last.sender, receiver, last.delivered)
    /\ last.ret_ok
    /\ receiver.stats.acks_received > receiver.stats.segments_received
    /\ sender.current_offset > 1000

\* C7: a get_next_packet() call made while a packet is outstanding and its
\* timeout has not elapsed returns None and changes nothing; a call builds a
\* new segment only when no packet is outstanding and data is left, and at
\* most one.
C7_StopAndWait ==
    last.op = "get_next_packet"
    => LET b == last.sender
           timed_out ==
               /\ b.packet_sent_time # NoTime
               /\ last.t - b.packet_sent_time > get_timeout(b.timeout_manager)
       IN  /\ (b.pending_ack /\ ~timed_out)
                  => (last.ret_packet = None /\ sender = b)
           /\ sender.stats.segments_sent # b.stats.segments_sent
                  => /\ ~b.pending_ack
                     /\ b.current_offset < b.total_size
                     /\ sender.stats.segments_sent = b.stats.segments_sent + 1
                     /\ sender.pending_ack

C7_Witness ==
    /\ last.op = "get_next_packet"
    /\ last.sender.pending_ack
    /\ last.ret_packet = None
    /\ last.sender.current_offset > 0

\* C8: process_ack returns true only while a packet is outstanding, and at
\* most once for each segment get_next_packet built.
C8_OneAckPerSegment ==
    /\ (last.op = "process_ack" /\ last.ret_ok) => last.sender.pending_ack
    /\ sender.stats.acks_received <= sender.stats.segments_sent

\* whether process_ack is to accept p, for the sender s
AckMatches(s, p) ==
    /\ validate_packet(p).is_valid
    /\ HasFlag(Fields(p).flags, FLAG_ACK)
    /\ Fields(p).ack_num = (s.seq_num + 1) % 2

\* C9: process_ack on a packet that fails validate_packet, or lacks the ACK
\* flag, or carries another ack_num than (current_seq + 1) mod 2, returns
\* false and leaves the sender (offset, sequence number, pending_ack,
\* timeout state, statistics) as it was.
C9_AckRejection ==
    (last.op = "process_ack" /\ ~AckMatches(last.sender, last.arg))
    => (~last.ret_ok /\ sender = last.sender)

C9_Witness ==
    /\ last.op = "process_ack"
    /\ last.sender.pending_ack
    /\ IsValidAck(last.arg)
    /\ Fields(last.arg).ack_num = last.sender.seq_num
    /\ ~last.ret_ok
    /\ last.sender.stats.segments_retransmitted > 0

\* C10: process_ack on a valid ACK packet carrying (current_seq + 1) mod 2
\* returns true, advances the sequence number by one modulo 2, advances
\* current_offset by the payload length of the segment built last, and
\* clears pending_ack.
C10_AckAcceptance ==
    (last.op = "process_ack" /\ AckMatches(last.sender, last.arg))
    => /\ last.ret_ok
       /\ sender.seq_num = (last.sender.seq_num + 1) % 2
       /\ sender.current_offset =
              last.sender.current_offset
              + parse_packet(last.sender.current_packet).length
       /\ ~sender.pending_ack

C10_Witness ==
    /\ last.op = "process_ack"
    /\ AckMatches(last.sender, last.arg)
    /\ last.sender.pending_ack
    /\ last.sender.current_offset = 2000
    /\ sender.current_offset = 2100

\* the packet of s is outstanding and its timeout has elapsed at time t
TimedOut(s, t) ==
    /\ s.pending_ack
    /\ s.packet_sent_time # NoTime
    /\ t - s.packet_sent_time > get_timeout(s.timeout_manager)

\* C11: a get_next_packet() call made when the outstanding packet has
\* exceeded the timeout returns the packet built before, bit for bit, doubles
\* the timeout (up to the maximum), restarts the send clock, counts one
\* timeout and one retransmission, and leaves the sequence number,
\* current_offset, pending_ack and the stored packet as they were.
C11_RetransmitSamePacket ==
    (last.op = "get_next_packet" /\ TimedOut(last.sender, last.t))
    => /\ last.ret_packet # None
       /\ last.ret_packet = last.sender.current_packet
       /\ Fields(last.ret_packet).seq_num = last.sender.seq_num
       /\ sender.current_packet = last.sender.current_packet
       /\ get_timeout(sender.timeout_manager) =
              Min(2 * get_timeout(last.sender.timeout_manager), MAX_TIMEOUT)
       /\ sender.packet_sent_time = last.t
       /\ sender.stats.timeouts = last.sender.stats.timeouts + 1
       /\ sender.stats.segments_retransmitted =
              last.sender.stats.segments_retransmitted + 1
       /\ sender.stats.segments_sent = last.sender.stats.segments_sent
       /\ sender.seq_num = last.sender.seq_num
       /\ sender.current_offset = last.sender.current_offset
       /\ sender.pending_ack

C11_Witness ==
    /\ last.op = "get_next_packet"
    /\ TimedOut(last.sender, last.t)
    /\ last.sender.current_offset = 1000
    /\ last.ret_packet # None
    /\ get_timeout(sender.timeout_manager)
           > get_timeout(last.sender.timeout_manager)

\* the payload bytes of the segments s has built: record_send adds the
\* length of each new packet, header included
BytesBuilt(s) ==
    s.stats.total_bytes_sent - PACKET_HEADER_SIZE * s.stats.segments_sent

\* C14: every packet get_next_packet() returns carries at most 1000 payload
\* bytes; each new segment starts where the segments built before it end and
\* carries the next 1000 bytes of the loaded data, or the remainder if that
\* is less; and when the sender is complete the segments built add up to the
\* loaded data.
C14_Segmentation ==
    /\ (last.op = "get_next_packet" /\ last.ret_packet # None)
       => parse_packet(last.ret_packet).length <= MAX_PAYLOAD_SIZE
    /\ (last.op = "get_next_packet"
            /\ sender.stats.segments_sent # last.sender.stats.segments_sent)
       => LET b     == last.sender
              start == BytesBuilt(b)
              size  == Min(MAX_PAYLOAD_SIZE, b.total_size - start)
          IN  /\ b.current_offset = start
              /\ parse_packet(last.ret_packet).data =
                     SubSeq(b.data_buffer, start + 1, start + size)
              /\ parse_packet(last.ret_packet).length = size
    /\ is_complete(sender) => BytesBuilt(sender) = sender.total_size

\* C15: after load_data with empty data the sender is complete at once and
\* get_next_packet() returns None and sends nothing; after load_data with
\* data it is not complete, and it becomes complete only by process_ack
\* accepting the ack of the outstanding last segment.
C15_Completion ==
    /\ (last.op = "load_data" /\ sender.total_size = 0) => is_complete(sender)
    /\ (last.op = "load_data" /\ sender.total_size > 0) => ~is_complete(sender)
    /\ (last.op = "get_next_packet" /\ last.sender.total_size = 0)
       => (last.ret_packet = None /\ sender = last.sender)
    /\ (sender.total_size > 0 /\ is_complete(sender)
            /\ ~is_complete(last.sender))
       => /\ last.op = "process_ack"
          /\ last.ret_ok
          /\ last.sender.pending_ack
          /\ last.sender.current_offset + Len(last.sender.current_data)
                 = sender.total_size

\* C18: once an ack has retired the outstanding segment, a timeout for it
\* does nothing: neither get_next_packet() nor handle_timeout() resends,
\* backs off the timeout or counts a timeout or a retransmission.
C18_TimerAckRace ==
    /\ (last.op = "get_next_packet" /\ ~last.sender.pending_ack)
       => /\ sender.timeout_manager = last.sender.timeout_manager
          /\ sender.stats.timeouts = last.sender.stats.timeouts
          /\ sender.stats.segments_retransmitted =
                 last.sender.stats.segments_retransmitted
    /\ (last.op = "handle_timeout" /\ ~last.sender.pending_ack
                                   /\ last.sender.stats.acks_received > 0)
       => sender = last.sender

(***************************************************************************)
(* SenderSpec: the sender alone.  load_data may be called at any moment,   *)
(* also in the middle of a transfer and after one; the acks that arrive    *)
(* are the receiver's answers to the packets sent so far, in any order and *)
(* any number of times.                                                    *)
(***************************************************************************)
MaxSends == 3

\* the ack a receiver returns for the data packet p, whether it buffers p or
\* takes it for a duplicate: its ack_num is the number after p's
AckFor(p) == create_packet(0, (UnpackHeader(p).seq_num + 1) % 2, FLAG_ACK, << >>)

SenderAcks == { AckFor(p) : p \in data_channel }

SenderLoadData(data) ==
    /\ DoLoadData(data)
    /\ fresh' = TRUE
    /\ UNCHANGED << now, data_channel, ack_channel, driverVars, backoff, rtts,
                    fifo >>

SenderGetNextPacket ==
    /\ sender.stats.segments_sent < MaxSends
    /\ LET r == get_next_packet(sender, now)
       IN  /\ DoGetNextPacket(r)
           /\ data_channel' = IF r.ret = None THEN data_channel
                              ELSE data_channel \cup {r.ret}
    /\ fresh' = FALSE
    /\ UNCHANGED << now, ack_channel, driverVars, backoff, rtts, fifo >>

SenderNext ==
    \/ \E data \in DataInputs : SenderLoadData(data)
    \/ SenderGetNextPacket
    \/ HandleTimeout
    \/ \E p \in SenderAcks : ProcessAck(p)

SenderSpec == Init /\ [][SenderNext]_vars

(***************************************************************************)
(* FifoSpec: one transfer over a channel that keeps the order of the       *)
(* packets in each direction.  The packet at the head of a queue may be    *)
(* dropped, delivered, delivered damaged, and delivered and kept to be     *)
(* delivered again (a duplicate); the sender's clock may advance and       *)
(* handle_timeout may be called at any moment.                             *)
(***************************************************************************)
FifoGetNextPacket ==
    /\ last.op # "init"
    /\ LET r == get_next_packet(sender, now)
       IN  /\ DoGetNextPacket(r)
           /\ fifo' = IF r.ret = None THEN fifo
                      ELSE [fifo EXCEPT !.data = Append(@, r.ret)]
    /\ UNCHANGED << now, data_channel, ack_channel, driverVars, backoff,
                    rtts, fresh >>

FifoDropData ==
    /\ fifo.data # << >>
    /\ fifo' = [fifo EXCEPT !.data = Tail(@)]
    /\ UNCHANGED << sender, receiver, now, data_channel, ack_channel,
                    delivered, last, driverVars, backoff, rtts, fresh >>

\* the head of the data queue reaches the receiver; its answer joins the
\* ack queue
FifoDeliverData(corrupt, keep) ==
    /\ fifo.data # << >>
    /\ receiver.stats.acks_received < MaxAnswers
    /\ LET p == Head(fifo.data)
           q == IF corrupt
                THEN _corrupt_packet(p, Len(p) - 1, 0)
                ELSE p
           r == process_packet(receiver, q)
       IN  /\ DoProcessPacket(q, r)
           /\ fifo' = [data |-> IF keep THEN fifo.data ELSE Tail(fifo.data),
                       ack  |-> IF r.ret = None THEN fifo.ack
                                ELSE Append(fifo.ack, r.ret)]
    /\ UNCHANGED << now, data_channel, ack_channel, driverVars, backoff,
                    rtts, fresh >>

FifoDropAck ==
    /\ fifo.ack # << >>
    /\ fifo' = [fifo EXCEPT !.ack = Tail(@)]
    /\ UNCHANGED << sender, receiver, now, data_channel, ack_channel,
                    delivered, last, driverVars, backoff, rtts, fresh >>

\* the head of the ack queue reaches the sender
FifoDeliverAck(corrupt, keep) ==
    /\ fifo.ack # << >>
    /\ sender.stats.acks_received < MaxAcks
    /\ LET a == Head(fifo.ack)
           q == IF corrupt THEN [a EXCEPT ![2] = FlipBit(@, 0)] ELSE a
       IN  DoProcessAck(q)
    /\ fifo' = [fifo EXCEPT !.ack = IF keep THEN @ ELSE Tail(@)]
    /\ UNCHANGED << now, data_channel, ack_channel, driverVars, backoff,
                    rtts, fresh >>

FifoNext ==
    \/ \E data \in DataInputs : LoadData(data)
    \/ FifoGetNextPacket
    \/ HandleTimeout
    \/ FifoDropData
    \/ \E corrupt \in BOOLEAN, keep \in BOOLEAN : FifoDeliverData(corrupt, keep)
    \/ FifoDropAck
    \/ \E corrupt \in BOOLEAN, keep \in BOOLEAN : FifoDeliverAck(corrupt, keep)
    \/ Tick

FifoSpec == Init /\ [][FifoNext]_vars

(***************************************************************************)
(* WindowSpec: record_rtt called often enough to fill the sample window    *)
(* and go beyond it.  The k-th sample is k or 1000 + k milliseconds, so    *)
(* that all samples differ; there is a choice between the two for the      *)
(* first samples and for those after the window is full.                   *)
(***************************************************************************)
MaxRecorded == 52
FreeSamples == 2

WindowRtts(k) ==
    IF k <= FreeSamples \/ k > MAX_SAMPLES THEN { k, 1000 + k } ELSE { k }

\* every sample that is given at some point
WindowSamples == UNION { WindowRtts(k) : k \in 1..MaxRecorded }

WindowRecordRtt(rtt) ==
    /\ Len(rtts) < MaxRecorded
    /\ rtt \in WindowRtts(Len(rtts) + 1)
    /\ sender' = [sender EXCEPT
                     !.timeout_manager = record_rtt(sender.timeout_manager, rtt)]
    /\ rtts' = Append(rtts, rtt)
    /\ UNCHANGED << receiver, now, data_channel, ack_channel, delivered, last,
                    driverVars, backoff, fresh, fifo >>

WindowNext == \E rtt \in WindowSamples : WindowRecordRtt(rtt)

WindowSpec == Init /\ [][WindowNext]_vars

(***************************************************************************)
(* CodecSpec: a packet is built by create_packet from any fields and then  *)
(* one bit of it, at any position, is changed.                             *)
(***************************************************************************)
CodecNumbers == { 0, 1, 255 }

CodecFlags == { 0, FLAG_ACK, FLAG_DATA, 255 }

CodecPayloads == { << >>, <<0>>, <<255>>, <<255, 255>>, <<1, 2, 3>> }

\* a payload of the largest size
FullPayload == [i \in 1..MAX_PAYLOAD_SIZE |-> (i - 1) % 256]

\* a payload of odd size whose words sum beyond 16 bits many times over
CarryPayload == [i \in 1..(MAX_PAYLOAD_SIZE - 1) |-> 255]

\* payloads beyond the largest size
OversizePayloads ==
    { [i \in 1..(MAX_PAYLOAD_SIZE + 1) |-> 65],
      [i \in 1..(2 * MAX_PAYLOAD_SIZE) |-> (i - 1) % 256] }

CodecInputs ==
    { [seq_num |-> s, ack_num |-> a, flags |-> f, data |-> d] :
          s \in CodecNumbers, a \in CodecNumbers, f \in CodecFlags,
          d \in CodecPayloads }
    \cup { [seq_num |-> 1, ack_num |-> 0, flags |-> FLAG_DATA, data |-> d] :
              d \in { FullPayload, CarryPayload } \cup OversizePayloads }

CodecCreatePacket(in) ==
    /\ packet = None
    /\ packet' = create_packet(in.seq_num, in.ack_num, in.flags, in.data)
    /\ last' = Call("create_packet", in, packet', FALSE)
    /\ UNCHANGED << sender, receiver, now, data_channel, ack_channel,
                    delivered, pc, test, iterations, received_packet, ack,
                    network, backoff, rtts, fresh, fifo >>

\* corrupted = bytearray(packet); corrupted[pos] ^= (1 << bit), for any
\* position and bit of the packet
CodecCorrupt ==
    /\ packet # None
    /\ packet # ValueError
    /\ received_packet = None
    /\ \E pos \in 1..Len(packet), bit \in 0..7 :
          received_packet' = [packet EXCEPT ![pos] = FlipBit(@, bit)]
    /\ last' = [last EXCEPT !.op = "corrupt"]
    /\ UNCHANGED << sender, receiver, now, data_channel, ack_channel,
                    delivered, pc, test, iterations, packet, ack, network,
                    backoff, rtts, fresh, fifo >>

\* bytes that are no packet: a packet cut after any number of bytes, or
\* with one more byte at its end
CodecResize ==
    /\ packet # None
    /\ packet # ValueError
    /\ received_packet = None
    /\ \/ \E n \in 0..(Len(packet) - 1) :
             received_packet' = SubSeq(packet, 1, n)
       \/ \E byte \in { 0, 255 } :
             received_packet' = Append(packet, byte)
    /\ last' = [last EXCEPT !.op = "resize"]
    /\ UNCHANGED << sender, receiver, now, data_channel, ack_channel,
                    delivered, pc, test, iterations, packet, ack, network,
                    backoff, rtts, fresh, fifo >>

CodecNext ==
    \/ \E in \in CodecInputs : CodecCreatePacket(in)
    \/ CodecCorrupt
    \/ CodecResize

CodecSpec == Init /\ [][CodecNext]_vars

(***************************************************************************)
(* TimeoutSpec: the sender's timeout estimator alone, constructed with any *)
(* initial timeout and then given record_rtt and on_retransmission calls   *)
(* in any order.  Times are in milliseconds.                               *)
(***************************************************************************)
InitialTimeouts == { 0, 50, 100, 500, 4000, 7499, 7500, 16000, 30000, 60000 }

RttInputs == { 0, 100, 5000, 40000 }

MaxRtts == 2
MaxBackoffs == 3

TimeoutInit ==
    /\ \E timeout \in InitialTimeouts : EnginesWith(timeout)
    /\ pc = "free"
    /\ test = "none"

TimerRecordRtt(rtt) ==
    /\ Len(sender.timeout_manager.rtt_samples) < MaxRtts
    /\ sender' = [sender EXCEPT
                     !.timeout_manager = record_rtt(sender.timeout_manager, rtt)]
    /\ backoff' = << >>
    /\ UNCHANGED << receiver, now, data_channel, ack_channel, delivered, last,
                    driverVars, rtts, fresh, fifo >>

TimerOnRetransmission ==
    /\ Len(backoff) <= MaxBackoffs
    /\ sender' = [sender EXCEPT
                     !.timeout_manager = on_retransmission(sender.timeout_manager)]
    /\ backoff' = IF backoff = << >>
                  THEN << get_timeout(sender.timeout_manager),
                          get_timeout(sender'.timeout_manager) >>
                  ELSE Append(backoff, get_timeout(sender'.timeout_manager))
    /\ UNCHANGED << receiver, now, data_channel, ack_channel, delivered, last,
                    driverVars, rtts, fresh, fifo >>

TimeoutNext ==
    \/ \E rtt \in RttInputs : TimerRecordRtt(rtt)
    \/ TimerOnRetransmission

TimeoutSpec == TimeoutInit /\ [][TimeoutNext]_vars

\* C24: a retransmission (handle_timeout, called directly or by
\* get_next_packet on a timeout) sets the timeout to min(2 * timeout,
\* max_timeout) and leaves the RTT samples as they were; the samples change
\* only in a process_ack call that returns True while a send time is set,
\* and then by the one sample "time of the call - send time" at the end.
C24_NoSampleFromRetransmission ==
    LET old == last.sender.timeout_manager
        new == sender.timeout_manager
    IN  /\ (\/ last.op = "handle_timeout"
            \/ last.op = "get_next_packet" /\ TimedOut(last.sender, last.t))
           => /\ new.rtt_samples = old.rtt_samples
              /\ new.current_timeout
                    = Min(2 * old.current_timeout, old.max_timeout)
        /\ new.rtt_samples # old.rtt_samples
           => /\ last.op = "process_ack"
              /\ last.ret_ok
              /\ last.sender.packet_sent_time # NoTime
              /\ new.rtt_samples
                    = Append(old.rtt_samples,
                             last.t - last.sender.packet_sent_time)

C24_Witness ==
    /\ last.op = "get_next_packet"
    /\ TimedOut(last.sender, last.t)
    /\ last.sender.timeout_manager.rtt_samples # << >>
    /\ sender.timeout_manager.rtt_samples
          = last.sender.timeout_manager.rtt_samples
    /\ get_timeout(sender.timeout_manager)
          = 2 * get_timeout(last.sender.timeout_manager)

\* C33: after load_data, whatever get_next_packet, process_ack and
\* handle_timeout calls follow (acks arriving when nothing is outstanding
\* included), 0 <= current_offset <= total_size in every state.
C33_OffsetWithinData ==
    /\ 0 <= sender.current_offset
    /\ sender.current_offset <= sender.total_size

\* C37: timeouts equals segments_retransmitted in every state;
\* segments_sent is the number of distinct segments built (the distinct
\* packets handed to the channel), it grows by one in a get_next_packet
\* call that builds a segment and in no other call, and a get_next_packet
\* call that retransmits returns the outstanding packet and leaves it as
\* it was.
C37_SenderStatistics ==
    LET old == last.sender.stats
        new == sender.stats
    IN  /\ new.timeouts = new.segments_retransmitted
        /\ new.segments_sent = Cardinality(data_channel)
        /\ (last.op = "get_next_packet" /\ TimedOut(last.sender, last.t))
           => /\ last.ret_packet = last.sender.current_packet
              /\ new.segments_sent = old.segments_sent
              /\ new.segments_retransmitted = old.segments_retransmitted + 1
        /\ new.segments_sent # old.segments_sent
           => /\ last.op = "get_next_packet"
              /\ ~TimedOut(last.sender, last.t)
              /\ last.ret_packet # None
              /\ last.ret_packet # last.sender.current_packet
              /\ new.segments_sent = old.segments_sent + 1

C37_Witness ==
    /\ last.op = "get_next_packet"
    /\ TimedOut(last.sender, last.t)
    /\ last.ret_packet = last.sender.current_packet
    /\ sender.stats.segments_sent = 2
    /\ sender.stats.segments_retransmitted = 1
    /\ sender.stats.timeouts = 1

(***************************************************************************)
(* Properties of SenderSpec                                                *)
(***************************************************************************)
\* C23: the sender's sequence number is always in 0..modulo-1; a call that
\* increments it (process_ack returning True) leaves it at the old value
\* plus one modulo 2, a call that resets it (load_data) leaves it at 0, and
\* every other call (get_next_packet, handle_timeout, process_ack returning
\* False) leaves it as it was.
C23_SequenceState ==
    /\ sender.seq_num \in 0..(MODULO - 1)
    /\ get_current(sender.seq_num) = sender.seq_num
    /\ sender.seq_num =
          IF last.op = "load_data" THEN 0
          ELSE IF last.op = "process_ack" /\ last.ret_ok
          THEN (last.sender.seq_num + 1) % MODULO
          ELSE last.sender.seq_num

C23_Witness ==
    /\ last.op = "process_ack"
    /\ last.ret_ok
    /\ last.sender.seq_num = 1
    /\ sender.seq_num = 0

\* C26: a get_next_packet, process_ack or handle_timeout call never lowers
\* current_offset, and the only call that changes it is a process_ack that
\* returns True.
C26_CursorAdvances ==
    last.op \in { "get_next_packet", "process_ack", "handle_timeout" }
    => /\ sender.current_offset >= last.sender.current_offset
       /\ sender.current_offset # last.sender.current_offset
          => (last.op = "process_ack" /\ last.ret_ok)

C26_Witness ==
    /\ last.op = "process_ack"
    /\ last.ret_ok
    /\ last.sender.current_offset = MAX_PAYLOAD_SIZE
    /\ sender.current_offset = 2 * MAX_PAYLOAD_SIZE

\* C27: from a load_data(d) call until the next get_next_packet call,
\* whatever happened before the load and whatever is called in between,
\* current_offset is 0, the sequence number is 0 and no packet is
\* outstanding, and for non-empty d that get_next_packet call returns the
\* DATA packet with seq_num 0 that carries the first min(len(d), 1000) bytes
\* of d.
C27_FreshTransfer ==
    /\ last.op = "load_data" => fresh
    /\ fresh
       => /\ sender.current_offset = 0
          /\ sender.seq_num = 0
          /\ ~sender.pending_ack
          /\ sender.total_size > 0
             => get_next_packet(sender, now).ret
                   = create_packet(0, 0, FLAG_DATA,
                        SubSeq(sender.data_buffer, 1,
                               Min(sender.total_size, MAX_PAYLOAD_SIZE)))

\* C36: from a state where is_complete() is true, a get_next_packet,
\* process_ack or handle_timeout call leaves is_complete() true, and a
\* get_next_packet call returns None; only load_data ends completion.
C36_CompletionAbsorbing ==
    (/\ is_complete(last.sender)
     /\ last.op \in {"get_next_packet", "process_ack", "handle_timeout"})
    => /\ is_complete(sender)
       /\ last.op = "get_next_packet" => last.ret_packet = None

C36_Witness ==
    /\ last.op = "get_next_packet"
    /\ is_complete(last.sender)
    /\ last.sender.total_size > 0
    /\ last.sender.stats.acks_received > 0
    /\ last.ret_packet = None
    /\ is_complete(sender)

(***************************************************************************)
(* Properties of FifoSpec                                                  *)
(***************************************************************************)
\* C31: over a channel that may drop, damage and duplicate packets but
\* keeps their order, in every state the receiver's received_data is a
\* prefix of the loaded payload and current_offset <= len(received_data)
\* <= current_offset + len(current_data): the sender retires no segment
\* the receiver has not delivered, and the receiver is at most the
\* outstanding segment ahead.
C31_FifoLockstep ==
    LET got == get_received_data(receiver)
    IN  /\ IsPrefix(got, sender.data_buffer)
        /\ sender.current_offset <= Len(got)
        /\ Len(got) <= sender.current_offset + Len(sender.current_data)

C31_Witness ==
    /\ last.op = "process_packet"
    /\ last.arg = delivered
    /\ receiver.stats.acks_received > receiver.stats.segments_received
    /\ sender.stats.segments_retransmitted > 0
    /\ sender.pending_ack
    /\ sender.current_offset = MAX_PAYLOAD_SIZE
    /\ Len(get_received_data(receiver)) = 2 * MAX_PAYLOAD_SIZE

(***************************************************************************)
(* Properties of CodecSpec                                                 *)
(***************************************************************************)
\* the packet with its checksum field set to zero
ChecksumZeroed(p) ==
    [p EXCEPT ![PACKET_HEADER_SIZE - 1] = 0, ![PACKET_HEADER_SIZE] = 0]

\* C19: for fields in 0..255 and a payload of at most 1000 bytes, the packet
\* create_packet builds has 7 + len(payload) bytes, validate_packet returns
\* (True, "") for it, and parse_packet returns the same seq_num, ack_num,
\* flags and payload, with length = len(payload) and checksum = the Internet
\* checksum of the packet with its checksum field zeroed.
C19_CodecRoundTrip ==
    (last.op = "create_packet" /\ Len(last.arg.data) <= MAX_PAYLOAD_SIZE)
    => /\ Len(packet) = PACKET_HEADER_SIZE + Len(last.arg.data)
       /\ validate_packet(packet) = [is_valid |-> TRUE, msg |-> ""]
       /\ ~parse_packet(packet).raised
       /\ parse_packet(packet).seq_num = last.arg.seq_num
       /\ parse_packet(packet).ack_num = last.arg.ack_num
       /\ parse_packet(packet).flags = last.arg.flags
       /\ parse_packet(packet).data = last.arg.data
       /\ parse_packet(packet).length = Len(last.arg.data)
       /\ parse_packet(packet).checksum = calculate(ChecksumZeroed(packet))

C19_Witness ==
    /\ last.op = "create_packet"
    /\ last.arg.data = FullPayload
    /\ Len(packet) = PACKET_HEADER_SIZE + MAX_PAYLOAD_SIZE
    /\ parse_packet(packet).data = FullPayload

\* C21: create_packet raises ValueError, and yields no packet, exactly when
\* the payload has more than 1000 bytes; an empty payload and a payload of
\* exactly 1000 bytes are encoded into packets that validate.
C21_PayloadSizeLimit ==
    last.op = "create_packet"
    => /\ (packet = ValueError) <=> (Len(last.arg.data) > MAX_PAYLOAD_SIZE)
       /\ Len(last.arg.data) \in { 0, MAX_PAYLOAD_SIZE }
          => /\ Len(packet) = PACKET_HEADER_SIZE + Len(last.arg.data)
             /\ validate_packet(packet).is_valid

C21_Witness ==
    /\ last.op = "create_packet"
    /\ Len(last.arg.data) = MAX_PAYLOAD_SIZE + 1
    /\ packet = ValueError

\* C20: a packet built by create_packet with one bit changed, in a header
\* field, in the checksum field or in the payload, fails validate_packet.
C20_SingleBitDetected ==
    last.op = "corrupt" => ~validate_packet(received_packet).is_valid

\* a changed bit in the payload, as in corrupted[10] ^= 0x01
C20_Witness ==
    /\ last.op = "corrupt"
    /\ Len(packet) = 10
    /\ received_packet[10] # packet[10]
    /\ validate_packet(received_packet).msg = "Checksum mismatch"

\* the bytes handed to parse_packet and validate_packet
Received == received_packet # None

\* the length field of p, for p of 7 bytes or more
Declared(p) == p[4] * 256 + p[5]

\* C28: parse_packet raises "too short" for fewer than 7 bytes and "length
\* mismatch" when the number of bytes after the header is not the declared
\* length; otherwise it returns the fields, whatever the checksum is.
C28_ParseErrors ==
    Received
    => LET p == received_packet
           f == parse_packet(p)
       IN  IF Len(p) < 7
           THEN f.raised /\ f.msg = "Packet too short"
           ELSE IF Len(p) - 7 # Declared(p)
           THEN f.raised /\ f.msg = "Data length mismatch"
           ELSE /\ ~f.raised
                /\ f.seq_num = p[1] /\ f.ack_num = p[2] /\ f.flags = p[3]
                /\ f.length = Len(p) - 7
                /\ f.data = SubSeq(p, 8, Len(p))
                /\ f.checksum = p[6] * 256 + p[7]

\* a packet of the right size with a wrong checksum is parsed
C28_Witness ==
    /\ Received
    /\ last.op = "corrupt"
    /\ validate_packet(received_packet).msg = "Checksum mismatch"
    /\ ~parse_packet(received_packet).raised
    /\ parse_packet(received_packet).data = <<1, 2, 3>>
    /\ parse_packet(received_packet).checksum # parse_packet(packet).checksum

\* C29: for any bytes validate_packet returns (True, "") or (False, reason)
\* with a reason that is not empty; it returns False for fewer than 7 bytes,
\* for a size other than 7 + the declared length and for a stored checksum
\* other than the checksum computed with the checksum field zeroed, and
\* True otherwise.
C29_ValidateTotal ==
    Received
    => LET p == received_packet
           v == validate_packet(p)
           good == /\ Len(p) >= 7
                   /\ Len(p) = 7 + Declared(p)
                   /\ p[6] * 256 + p[7] = calculate(ChecksumZeroed(p))
       IN  /\ v.is_valid \in BOOLEAN
           /\ v.is_valid <=> good
           /\ v.is_valid <=> (v.msg = "")

C29_Witness ==
    /\ Received
    /\ last.op = "resize"
    /\ Len(received_packet) = Len(packet) + 1
    /\ Len(packet) = PACKET_HEADER_SIZE + MAX_PAYLOAD_SIZE
    /\ validate_packet(received_packet).msg = "Length mismatch"

\* the sum of the bytes of data, those at odd positions (the high bytes of
\* the 16-bit big-endian words) counted 256 times.  BagCardinality adds up
\* the values of a function, which must be positive: every term is raised by
\* one and the ones are taken off again.
WeightedSum(data) ==
    BagCardinality([i \in 1..Len(data) |->
                       data[i] * (IF i % 2 = 1 THEN 256 ELSE 1) + 1])
    - Len(data)

\* the 16-bit one's complement of the end-around-carry sum of the words
ReferenceChecksum(data) ==
    LET total  == WeightedSum(data)
        folded == IF total = 0 THEN 0 ELSE ((total - 1) % 65535) + 1
    IN  65535 - folded

\* C30: calculate(B) is the 16-bit one's complement of the end-around-carry
\* sum of the big-endian 16-bit words of B padded with a zero byte when its
\* length is odd; it lies in 0..65535, is the same for B of odd length and
\* for B followed by a zero byte, and verify(B, calculate(B)) is true, for
\* the empty B too.
C30_ChecksumReference ==
    Received
    => LET B        == received_packet
           checksum == calculate(B)
       IN  /\ checksum = ReferenceChecksum(B)
           /\ checksum \in 0..65535
           /\ Len(B) % 2 = 1 => checksum = calculate(Append(B, 0))
           /\ verify(B, checksum)

C30_Witness ==
    /\ Received
    /\ last.op = "corrupt"
    /\ Len(received_packet) = PACKET_HEADER_SIZE + MAX_PAYLOAD_SIZE
    /\ Len(received_packet) % 2 = 1
    /\ calculate(received_packet) = ReferenceChecksum(received_packet)
    /\ calculate(received_packet) = calculate(Append(received_packet, 0))

(***************************************************************************)
(* Properties of WindowSpec                                                *)
(***************************************************************************)
\* C25: after n record_rtt calls the window holds min(n, 50) samples, never
\* more than 50, and they are the most recent ones in the order in which
\* they were given.
C25_RttWindow ==
    LET window == sender.timeout_manager.rtt_samples
        n      == Len(rtts)
    IN  /\ Len(window) <= 50
        /\ Len(window) = Min(n, 50)
        /\ window = SubSeq(rtts, n - Len(window) + 1, n)

C25_Witness ==
    /\ Len(rtts) = 52
    /\ Len(sender.timeout_manager.rtt_samples) = 50
    /\ sender.timeout_manager.rtt_samples[1] = 3
    /\ sender.timeout_manager.rtt_samples[50] = 1052

(***************************************************************************)
(* Properties of TimeoutSpec                                               *)
(***************************************************************************)
\* C16: whatever initial timeout the constructor was given and whatever
\* record_rtt and on_retransmission calls followed, the current timeout lies
\* between min_timeout and max_timeout, so get_timeout() is positive and
\* at most 30 s.
C16_TimeoutBounds ==
    /\ sender.timeout_manager.min_timeout
          <= sender.timeout_manager.current_timeout
    /\ sender.timeout_manager.current_timeout
          <= sender.timeout_manager.max_timeout
    /\ get_timeout(sender.timeout_manager) > 0

\* the values of get_timeout() around three timeouts in a row, the first of
\* them being the i-th of the row
ThreeTimeouts(i) == SubSeq(backoff, i, i + 3)

\* C17 as stated: three timeouts in a row make get_timeout() strictly larger
\* each time, whatever value it had before the first, and never above 30 s.
C17_StrictBackoff ==
    \A i \in 1..(Len(backoff) - 3) :
        /\ ThreeTimeouts(i)[1] < ThreeTimeouts(i)[2]
        /\ ThreeTimeouts(i)[2] < ThreeTimeouts(i)[3]
        /\ ThreeTimeouts(i)[3] < ThreeTimeouts(i)[4]
        /\ ThreeTimeouts(i)[4] <= MAX_TIMEOUT

\* C17, amended: every timeout leaves get_timeout() at twice its value
\* before, or at 30 s if that is less, so never above 30 s; three timeouts in
\* a row make it strictly larger each time when the value before the first
\* was positive and below 7.5 s.
C17_BackoffUpToMax ==
    /\ \A i \in 2..Len(backoff) :
          /\ backoff[i] = Min(2 * backoff[i - 1], MAX_TIMEOUT)
          /\ backoff[i] <= MAX_TIMEOUT
    /\ \A i \in 1..(Len(backoff) - 3) :
          (0 < ThreeTimeouts(i)[1] /\ 4 * ThreeTimeouts(i)[1] < MAX_TIMEOUT)
          => /\ ThreeTimeouts(i)[1] < ThreeTimeouts(i)[2]
             /\ ThreeTimeouts(i)[2] < ThreeTimeouts(i)[3]
             /\ ThreeTimeouts(i)[3] < ThreeTimeouts(i)[4]

C17_Witness ==
    /\ sender.timeout_manager.rtt_samples # << >>
    /\ backoff = << 5000, 10000, 20000, 30000 >>

(***************************************************************************)
(* Properties of ReceiverSpec                                              *)
(***************************************************************************)
\* process_packet is to take p for the next segment, for the receiver r
IsNextSegment(r, p) ==
    /\ validate_packet(p).is_valid
    /\ Fields(p).seq_num = r.seq_num

\* C12: the received data changes only in a process_packet call on a valid
\* packet that carries the expected sequence number; such a call appends
\* the packet's payload at the end, advances the expected sequence number
\* by one modulo 2 and returns a valid ACK carrying the new expected number;
\* any other call leaves data and expected number as they were.
C12_InOrderAppendOnly ==
    /\ last.op # "process_packet" => receiver = last.receiver
    /\ last.op = "process_packet"
       => IF IsNextSegment(last.receiver, last.arg)
          THEN /\ get_received_data(receiver) =
                      get_received_data(last.receiver)
                      \o SubSeq(last.arg, PACKET_HEADER_SIZE + 1, Len(last.arg))
               /\ receiver.seq_num = (last.receiver.seq_num + 1) % 2
               /\ IsValidAck(last.ret_packet)
               /\ Fields(last.ret_packet).ack_num = receiver.seq_num
          ELSE /\ get_received_data(receiver) = get_received_data(last.receiver)
               /\ receiver.seq_num = last.receiver.seq_num

C12_Witness ==
    /\ last.op = "process_packet"
    /\ IsNextSegment(last.receiver, last.arg)
    /\ get_received_data(last.receiver) = <<65>>
    /\ get_received_data(receiver) = <<65, 1, 2, 3>>

\* C13: process_packet on bytes that fail validate_packet (too short, length
\* mismatch or checksum mismatch) returns None and leaves the receiver
\* (received data, expected sequence number, statistics) as it was.
C13_InvalidDropped ==
    (last.op = "process_packet" /\ ~validate_packet(last.arg).is_valid)
    => (last.ret_packet = None /\ receiver = last.receiver)

C13_Witness ==
    /\ last.op = "process_packet"
    /\ validate_packet(last.arg).msg = "Checksum mismatch"
    /\ Fields(last.arg).seq_num = receiver.seq_num
    /\ receiver.stats.segments_received = 2
    /\ last.ret_packet = None

\* C22: with modulo 2, a sequence number of 0 or 1 is either the expected
\* one or the duplicate one and never both, in every state of the manager; a
\* number from 2 to 255 is neither, and process_packet on a valid packet with
\* such a number returns None and leaves the receiver as it was.
C22_AlternatingBit ==
    /\ \A r \in 0..255 :
          IF r \in {0, 1}
          THEN is_expected(receiver.seq_num, r) # is_duplicate(receiver.seq_num, r)
          ELSE /\ ~is_expected(receiver.seq_num, r)
               /\ ~is_duplicate(receiver.seq_num, r)
    /\ (/\ last.op = "process_packet"
        /\ validate_packet(last.arg).is_valid
        /\ Fields(last.arg).seq_num \in 2..255)
       => (last.ret_packet = None /\ receiver = last.receiver)

C22_Witness ==
    /\ last.op = "process_packet"
    /\ validate_packet(last.arg).is_valid
    /\ Fields(last.arg).seq_num = 255
    /\ receiver.seq_num = 1
    /\ last.ret_packet = None

\* C34: a valid packet that does not carry the DATA flag leaves the
\* receiver's expected sequence number and its received data as they were.
C34_DataFlagRequired ==
    (/\ last.op = "process_packet"
     /\ validate_packet(last.arg).is_valid
     /\ ~HasFlag(Fields(last.arg).flags, FLAG_DATA))
    => /\ receiver.seq_num = last.receiver.seq_num
       /\ get_received_data(receiver) = get_received_data(last.receiver)

(***************************************************************************)
(* Properties of DriverSpec                                                *)
(***************************************************************************)
TransferDone ==
    /\ is_complete(sender)
    /\ get_received_data(receiver) = sender.data_buffer

\* C2: when the channel has dropped data packets, the driver loop still
\* ends with the transfer complete, the received data equal to the input
\* and segments_retransmitted > 0.
C2_LossRecovery ==
    (pc = "done" /\ network.packets_lost > 0)
    => (TransferDone /\ sender.stats.segments_retransmitted > 0)

\* C3: a data packet with a payload bit flipped is dropped by the receiver
\* (no ack, expected sequence number unchanged), and the driver loop still
\* ends with the transfer complete and the received data equal to the input.
C3_CorruptionRecovery ==
    /\ (last.op = "process_packet" /\ pc \in {"increment", "ack", "roll"}
                                   /\ received_packet # packet)
       => /\ last.ret_packet = None
          /\ receiver = last.receiver
    /\ (pc = "done" /\ network.packets_corrupted > 0) => TransferDone

\* the channel did nothing to any packet, and no packet was handed to the
\* receiver twice
PerfectChannel ==
    /\ network.packets_lost = 0
    /\ network.packets_corrupted = 0
    /\ network.packets_delayed = 0
    /\ receiver.stats.acks_received = receiver.stats.segments_received

\* C4: with a perfect channel the driver loop ends with the transfer
\* complete and the received data equal to the n bytes loaded, after exactly
\* ceil(n / 1000) iterations, each of which sent one new segment and
\* accepted one ack, and nothing was retransmitted.
C4_NoFaultTransfer ==
    /\ (pc = "done" /\ PerfectChannel)
       => /\ TransferDone
          /\ iterations = (sender.total_size + 999) \div 1000
          /\ sender.stats.segments_sent = iterations
          /\ sender.stats.acks_received = iterations
          /\ sender.stats.segments_retransmitted = 0
          /\ sender.stats.timeouts = 0
    /\ (pc = "increment" /\ PerfectChannel)
       => /\ sender.stats.segments_sent = iterations + 1
          /\ sender.stats.acks_received = iterations + 1

C4_Witness ==
    /\ pc = "done"
    /\ PerfectChannel
    /\ test = "speed"
    /\ iterations = 103
    /\ Len(get_received_data(receiver)) = 102400

\* C32: in the driver loop, the get_next_packet call that follows a
\* handle_timeout call made because the channel dropped the packet returns
\* the outstanding packet again, never None; the loop is left through
\* "packet is None" only with the transfer complete.
C32_ResendAfterDrop ==
    (/\ last.op = "get_next_packet"
     /\ pc \in {"network", "done"})
    => /\ (received_packet = None /\ network.packets_lost > 0)
          => /\ last.ret_packet # None
             /\ last.ret_packet = last.sender.current_packet
       /\ last.ret_packet = None => is_complete(sender)

\* C35: in one transfer run by the driver loop, the k-th segment built
\* (k from 0) carries seq_num k mod 2, ack_num 0 and the flags DATA; the
\* sender's sequence number is the number of accepted acks mod 2 and the
\* receiver's expected number is the number of delivered segments mod 2.
C35_NumbersFollowCounts ==
    /\ sender.seq_num = sender.stats.acks_received % 2
    /\ receiver.seq_num = receiver.stats.segments_received % 2
    /\ (/\ last.op = "get_next_packet"
        /\ sender.stats.segments_sent # last.sender.stats.segments_sent)
       => LET k == last.sender.stats.segments_sent
              f == Fields(last.ret_packet)
          IN  /\ f.seq_num = k % 2
              /\ f.ack_num = 0
              /\ f.flags = FLAG_DATA

C35_Witness ==
    /\ last.op = "get_next_packet"
    /\ last.sender.stats.segments_sent = 2
    /\ sender.stats.segments_sent = 3
    /\ Fields(last.ret_packet).seq_num = 0
    /\ sender.stats.acks_received = 2
    /\ receiver.stats.segments_received = 2
    /\ receiver.seq_num = 0

====
